---- MODULE Spec2Model ----
(***************************************************************************)
(* Model of package fn (eliothedeman/fn): lazy sequences built on Go's     *)
(* iter.Seq, the generators StepRange/Range, the containers Option and     *)
(* Result seen as sequences, and the combinators Chain, Zip, Apply,        *)
(* Filter, Enumerate and Reverse, the folds Reduce and Sum, and the        *)
(* extraction functions over Option and Result.                            *)
(*                                                                         *)
(* One behaviour of the model is one iteration of one sequence expression  *)
(* by a consumer whose callback may answer "continue" (TRUE) or "stop"     *)
(* (FALSE) on every element.  Every call that crosses a function boundary  *)
(* (a source calling its yield, a combinator calling f, pred or the        *)
(* consumer's yield, Zip calling next or stop of a pull adapter) is        *)
(* appended to log, so that orderings between them can be stated.          *)
(***************************************************************************)
EXTENDS Integers, Sequences, FiniteSets, TLC

\* ------------------------------------------------------------------ bounds
\* Bit width of the integer element type T (a signed two's complement type).
Width == 4
\* Largest end of the Range sources handed to the combinators.
MaxEnd == 6
\* Largest number of sequences handed to Chain.
MaxChain == 2
\* Cap on the number of elements the sources may produce in one iteration;
\* it only cuts iterations that would not terminate or that wrap around.
MaxSteps == 12
\* Largest number of iterations of one StepRange value.
MaxIters == 2

\* ------------------------------------------------------- integer type T
Pow2(n) == 2 ^ n
MaxInt == Pow2(Width - 1) - 1
\* Go's fixed-width integer arithmetic: the result wraps modulo 2^Width.
Wrap(x) == ((x + Pow2(Width - 1)) % Pow2(Width)) - Pow2(Width - 1)

\* The nil error.
Nil == "nil"

Min(a, b) == IF a < b THEN a ELSE b
Max(a, b) == IF a > b THEN a ELSE b

\* ------------------------------------------------ sequences (closures)
\* A sequence value is the state its closure captures.  StepRange captures
\* its parameters start, end and step, and its loop assigns to start.
StepRange(start, end, step) ==
  [kind |-> "range", start |-> start, end |-> end, step |-> step,
   val |-> 0, hasSome |-> FALSE, err |-> Nil]

Range(start, end) == StepRange(start, end, 1)

\* Option[T]: Some(val) and None().
Some(val) ==
  [kind |-> "option", start |-> 0, end |-> 0, step |-> 0,
   val |-> val, hasSome |-> TRUE, err |-> Nil]

None ==
  [kind |-> "option", start |-> 0, end |-> 0, step |-> 0,
   val |-> 0, hasSome |-> FALSE, err |-> Nil]

\* Result[T]: Try(t, err), Ok(t) and Err(err).
Try(t, err) ==
  [kind |-> "result", start |-> 0, end |-> 0, step |-> 0,
   val |-> t, hasSome |-> FALSE, err |-> err]

Ok(t) == Try(t, Nil)

Err(err) == Try(0, err)

\* A step of a running sequence function: from position p ("new": called,
\* nothing executed yet; "yield": inside its call of yield, which now
\* returns r) it runs to its next call of yield (p = "yield", the element
\* is x) or to its return (p = "ret").  s is the captured state afterwards.
Yielded(s, x) == [s |-> s, p |-> "yield", x |-> x]
Returned(s) == [s |-> s, p |-> "ret", x |-> 0]

\* Variant: the loop condition is start <= end.
StepRangeLoop_Inclusive(s) ==
  IF s.start <= s.end THEN Yielded(s, s.start) ELSE Returned(s)

\* for start < end { if !yield(start) { return }; start += step }
StepRangeLoop(s) ==
  IF s.start < s.end THEN Yielded(s, s.start) ELSE Returned(s)

\* Variant: the loop does not look at what yield returned.
StepRangeRun_IgnoresStop(s, p, r) ==
  IF p = "new" THEN StepRangeLoop(s)
  ELSE StepRangeLoop([s EXCEPT !.start = Wrap(s.start + s.step)])

\* Variant: the cursor is advanced before the result of yield is looked at.
StepRangeRun_AdvancesFirst(s, p, r) ==
  IF p = "new" THEN StepRangeLoop(s)
  ELSE IF ~r THEN Returned([s EXCEPT !.start = Wrap(s.start + s.step)])
  ELSE StepRangeLoop([s EXCEPT !.start = Wrap(s.start + s.step)])

StepRangeRun(s, p, r) ==
  IF p = "new" THEN StepRangeLoop(s)
  ELSE IF ~r THEN Returned(s)
  ELSE StepRangeLoop([s EXCEPT !.start = Wrap(s.start + s.step)])

\* if o.hasSome { yield(o.val) }
OptionIter(s, p, r) ==
  IF p = "new" /\ s.hasSome THEN Yielded(s, s.val) ELSE Returned(s)

\* Variant: the value is yielded whatever err is.
ResultIter_Always(s, p, r) ==
  IF p = "new" THEN Yielded(s, s.val) ELSE Returned(s)

\* if r.err == nil { yield(r.val) }
ResultIter(s, p, r) ==
  IF p = "new" /\ s.err = Nil THEN Yielded(s, s.val) ELSE Returned(s)

\* IterErr(r) returns a closure over r: if r.err != nil { yield(r.err) }
IterErr(s) == [s EXCEPT !.kind = "errs"]

IterErrRun(s, p, r) ==
  IF p = "new" /\ s.err # Nil THEN Yielded(s, s.err) ELSE Returned(s)

Resume(s, p, r) ==
  CASE s.kind = "range" -> StepRangeRun(s, p, r)
    [] s.kind = "option" -> OptionIter(s, p, r)
    [] s.kind = "result" -> ResultIter(s, p, r)
    [] s.kind = "errs" -> IterErrRun(s, p, r)

\* func (r Result[T]) unwrap() (T, bool) { return r.val, r.err == nil }
ResultUnwrap(s) == [val |-> s.val, ok |-> s.err = Nil]

\* func (o Option[T]) unwrap() (T, bool) { return o.val, o.hasSome }
OptionUnwrap(s) == [val |-> s.val, ok |-> s.hasSome]

\* x.unwrap() through the interface unwrappable.
unwrap(s) == IF s.kind = "result" THEN ResultUnwrap(s) ELSE OptionUnwrap(s)

\* ------------------------------------------------------ functions f, pred
\* The mapped functions handed to Apply and the predicates handed to Filter.
FNames == {"double", "succ"}
f(name, x) == IF name = "double" THEN Wrap(x * 2) ELSE Wrap(x + 1)

PredNames == {"isEven", "all", "none"}
pred(name, x) ==
  CASE name = "isEven" -> x % 2 = 0
    [] name = "all" -> TRUE
    [] name = "none" -> FALSE

\* The combining functions handed to Reduce; Sum hands in "add".
GNames == {"add", "mul", "sub"}
g(name, a, b) ==
  CASE name = "add" -> Wrap(a + b)
    [] name = "mul" -> Wrap(a * b)
    [] name = "sub" -> Wrap(a - b)

\* ------------------------------------------------------------- inputs
StartVals == {0, 1}
EndVals == {0, 1, 3, MaxInt}
StepVals == {0 - 1, 0, 1, 2, 3}

\* The arguments of the iterated StepRange (Range is the case step = 1).
StepRanges ==
  {StepRange(a, b, c) : a \in StartVals, b \in EndVals, c \in StepVals}

\* The sources handed to Apply, Filter, Zip and Enumerate.
RangeSrcs == {Range(a, b) : a \in 0..1, b \in 0..MaxEnd}

\* The sources handed to Chain.
ChainSrcs ==
  {Range(a, b) : a \in 0..1, b \in {0, 2}}
    \cup {Some(5), None, Ok(6), Err("e1"), Try(7, "e1")}

\* The sources handed to Reverse, Reduce and Sum.
FoldSrcs == {Range(a, b) : a \in 0..1, b \in {0, 1, 3, 4}}

\* The containers: every Option, and every Result that Ok, Err and Try build
\* (Ok(t) is Try(t, nil) and Err(err) is Try of the zero value and err).
BoxVals == {0, 5}
BoxErrs == {Nil, "e1", "e2"}
Options == {Some(v) : v \in BoxVals} \cup {None}
Results ==
  {Try(v, e) : v \in BoxVals, e \in BoxErrs}
    \cup {Ok(v) : v \in BoxVals} \cup {Err(e) : e \in BoxErrs}
Boxes == Options \cup Results

\* The seeds and combining functions handed to Reduce, and the defaults
\* handed to UnwrapOr and returned by the thunk of UnwrapOrF.
Seeds == {0, 1, 2}
Defaults == {3, 4}

SeqOps == {"StepRange", "Chain", "Apply", "Filter", "Zip", "Enumerate"}
FoldOps == {"Reduce", "Sum"}
BoxOps ==
  {"Iter", "IterErr", "HasValue", "IsEmpty", "Unpack", "Unwrap",
   "UnwrapOr", "UnwrapOrF"}
Ops == SeqOps \cup {"Reverse"} \cup FoldOps \cup BoxOps

SeqsUpTo(S, n) == UNION {[1..m -> S] : m \in 0..n}

Inputs(o) ==
  CASE o = "StepRange" -> {<<s>> : s \in StepRanges}
    [] o = "Chain" -> SeqsUpTo(ChainSrcs, MaxChain)
    [] o = "Zip" -> {<<a, b>> : a \in RangeSrcs, b \in RangeSrcs}
    [] o \in FoldOps \cup {"Reverse"} -> {<<s>> : s \in FoldSrcs}
    [] o \in {"IterErr", "Unpack"} -> {<<s>> : s \in Results}
    [] o \in BoxOps \ {"IterErr", "Unpack"} -> {<<s>> : s \in Boxes}
    [] OTHER -> {<<s>> : s \in RangeSrcs}

\* --------------------------------------------------------------- state
VARIABLES
  op,      \* the sequence expression that is iterated
  srcs0,   \* the sources as they were when the iteration began
  srcs,    \* the sources: the state their closures capture
  sst,     \* position of each source's function: "new", "yield", "ret"
  fname,   \* the function handed to Apply
  pname,   \* the predicate handed to Filter
  pc,      \* position of the iterated sequence's function
  k,       \* Chain: index of the source being ranged over
  cur,     \* the element the source passed to its yield
  ret,     \* what the source's call of yield returns
  i,       \* Enumerate: the counter i
  pull,    \* Zip: per side, whether iter.Pull was called and its done flag
  ax, aok, bx, bok,   \* Zip: results of pa() and pb()
  log,     \* every call made so far in this iteration, in order
  sl,      \* Reverse: the slice s
  j,       \* Reverse: position of slices.Values in s
  nrev,    \* Reverse: number of nested applications of Reverse
  out,     \* Reduce: the accumulator out
  seed,    \* Reduce: the seed
  gname,   \* Reduce: the combining function
  def,     \* UnwrapOr, UnwrapOrF: the default, or what the thunk returns
  rval,    \* the value returned by the called function
  rerr,    \* Unpack: the error returned
  panicked, \* the called function panicked
  past     \* the earlier iterations of the same sequence value

\* The variables of Reverse, of Reduce and of the extraction functions, and
\* the record of earlier iterations.
xvars == <<sl, j, nrev, out, seed, gname, def, rval, rerr, panicked, past>>

vars == <<op, srcs0, srcs, sst, fname, pname, pc, k, cur, ret, i, pull,
          ax, aok, bx, bok, log, xvars>>

\* ------------------------------------------------------------ the log
\* ev: "begin" (function of source who called), "src" (source who calls its
\* yield with val), "f" / "pred" (called on val; ret is pred's answer),
\* "yield" (the consumer's callback is called with val and answers ret),
\* "next" (pull adapter who returns val, ret), "stop" (stop of adapter who),
\* "def" (the thunk handed to UnwrapOrF is called and returns val).
Ev(ev, who, val, r) == [ev |-> ev, who |-> who, val |-> val, ret |-> r]

RECURSIVE SelectEv(_, _)
SelectEv(l, ev) ==
  IF l = <<>> THEN <<>>
  ELSE IF Head(l).ev = ev THEN <<Head(l)>> \o SelectEv(Tail(l), ev)
  ELSE SelectEv(Tail(l), ev)

RECURSIVE SelectSrc(_, _)
SelectSrc(l, who) ==
  IF l = <<>> THEN <<>>
  ELSE IF Head(l).ev = "src" /\ Head(l).who = who
    THEN <<Head(l).val[1]>> \o SelectSrc(Tail(l), who)
  ELSE SelectSrc(Tail(l), who)

Vals(l) == [n \in 1..Len(l) |-> l[n].val]
Singles(l) == [n \in 1..Len(l) |-> l[n].val[1]]
Rets(l) == [n \in 1..Len(l) |-> l[n].ret]

\* What the consumer's callback received, and what it answered.
Out == Vals(SelectEv(log, "yield"))
OutRets == Rets(SelectEv(log, "yield"))
\* The same for a sequence of single elements.
Out1 == Singles(SelectEv(log, "yield"))
\* The elements source who produced (passed to its yield).
Produced(who) == SelectSrc(log, who)
\* The arguments f and pred were called with.
FCalls == Singles(SelectEv(log, "f"))
PredCalls == Singles(SelectEv(log, "pred"))
\* The sources whose function was called.
Begun == {log[n].who : n \in {m \in 1..Len(log) : log[m].ev = "begin"}}
Stopped == \E n \in 1..Len(log) : log[n].ev = "yield" /\ ~log[n].ret
NSrcEvents == Len(SelectEv(log, "src"))

\* ---------------------------------------------------------------- Init
Init ==
  /\ op \in Ops
  /\ srcs0 \in Inputs(op)
  /\ srcs = srcs0
  /\ sst = [n \in 1..Len(srcs0) |-> "new"]
  /\ fname \in (IF op = "Apply" THEN FNames ELSE {"double"})
  /\ pname \in (IF op = "Filter" THEN PredNames ELSE {"all"})
  /\ pc = "cons"
  /\ k = 0
  /\ cur = 0
  /\ ret = TRUE
  /\ i = 0
  /\ pull = [n \in 1..Len(srcs0) |-> "none"]
  /\ ax = 0 /\ aok = FALSE /\ bx = 0 /\ bok = FALSE
  /\ log = <<>>
  /\ sl = <<>>
  /\ j = 0
  /\ nrev \in (IF op = "Reverse" THEN 1..2 ELSE {0})
  /\ out = 0
  /\ seed \in (IF op = "Reduce" THEN Seeds ELSE {0})
  /\ gname \in (IF op = "Reduce" THEN GNames ELSE {"add"})
  /\ def \in (IF op \in {"UnwrapOr", "UnwrapOrF"} THEN Defaults ELSE {0})
  /\ rval = 0
  /\ rerr = Nil
  /\ panicked = FALSE
  /\ past = <<>>


\* ------------------------------------------------- running the sources
Append1(l, e) == l \o <<e>>

\* The source's function is called (for x := range source).
CallSource(n) ==
  /\ k' = n
  /\ pc' = "run"
  /\ log' = Append1(log, Ev("begin", n, <<>>, TRUE))

\* The function of source k runs: from its start, or from the return of its
\* yield, to its next call of yield (the loop body runs next) or to its
\* return (control is back in the function that ranged over it).
SourceStep ==
  /\ pc = "run"
  /\ NSrcEvents < MaxSteps
  /\ LET res == Resume(srcs[k], sst[k], ret) IN
       /\ srcs' = [srcs EXCEPT ![k] = res.s]
       /\ sst' = [sst EXCEPT ![k] = res.p]
       /\ IF res.p = "yield"
            THEN /\ cur' = res.x
                 /\ pc' = "body"
                 /\ log' = Append1(log, Ev("src", k, <<res.x>>, TRUE))
            ELSE /\ cur' = cur
                 /\ pc' = "after"
                 /\ log' = log
  /\ UNCHANGED <<xvars, op, srcs0, fname, pname, k, ret, i, pull, ax, aok, bx, bok>>

\* ------------------------------------------------- StepRange and Range
\* The consumer ranges over the StepRange itself: its callback is the yield
\* of StepRange's loop.
StepRange_Call ==
  /\ pc = "idle" /\ op = "StepRange"
  /\ CallSource(1)
  /\ UNCHANGED <<xvars, op, srcs0, srcs, sst, fname, pname, cur, ret, i, pull,
                 ax, aok, bx, bok>>

StepRange_Yield ==
  /\ pc = "body" /\ op = "StepRange"
  /\ \E r \in BOOLEAN :
       /\ log' = Append1(log, Ev("yield", 0, <<cur>>, r))
       /\ ret' = r
  /\ pc' = "run"
  /\ UNCHANGED <<xvars, op, srcs0, srcs, sst, fname, pname, k, cur, i, pull,
                 ax, aok, bx, bok>>

\* ---------------------------------------------------------------- Chain
\* if !yield(x) { return }: what the body hands back to the inner range.
ChainContinue(r) == r

\* Variant: the body breaks out of the inner range only.
ChainReturns_BreakOnly(r) == FALSE

\* After the inner range over iters[k] ended: the function returns when the
\* body returned, otherwise the outer range goes on.
ChainReturns(r) == ~r

\* Variant: the outer range skips a sequence.
ChainNextIndex_Skips(n) == n + 2

ChainNextIndex(n) == n + 1

Chain_Call ==
  /\ pc = "idle" /\ op = "Chain"
  /\ IF Len(srcs) = 0
       THEN pc' = "done" /\ UNCHANGED <<k, log>>
       ELSE CallSource(1)
  /\ UNCHANGED <<xvars, op, srcs0, srcs, sst, fname, pname, cur, ret, i, pull,
                 ax, aok, bx, bok>>

Chain_Body ==
  /\ pc = "body" /\ op = "Chain"
  /\ \E r \in BOOLEAN :
       /\ log' = Append1(log, Ev("yield", 0, <<cur>>, r))
       /\ ret' = ChainContinue(r)
  /\ pc' = "run"
  /\ UNCHANGED <<xvars, op, srcs0, srcs, sst, fname, pname, k, cur, i, pull,
                 ax, aok, bx, bok>>

Chain_Next ==
  /\ pc = "after" /\ op = "Chain"
  /\ IF ChainReturns(ret) \/ ChainNextIndex(k) > Len(srcs)
       THEN pc' = "done" /\ UNCHANGED <<k, log>>
       ELSE CallSource(ChainNextIndex(k))
  /\ ret' = TRUE
  /\ UNCHANGED <<xvars, op, srcs0, srcs, sst, fname, pname, cur, i, pull,
                 ax, aok, bx, bok>>

\* ---------------------------------------------------------------- Apply
\* The value Apply passes on for source element x.
ApplyValue(name, x) == f(name, x)

\* Variant: the body does not look at what yield returned.
ApplyContinue_IgnoresStop(r) == TRUE

\* if !yield(f(i)) { return }
ApplyContinue(r) == r

Apply_Call ==
  /\ pc = "idle" /\ op = "Apply"
  /\ CallSource(1)
  /\ UNCHANGED <<xvars, op, srcs0, srcs, sst, fname, pname, cur, ret, i, pull,
                 ax, aok, bx, bok>>

Apply_Body ==
  /\ pc = "body" /\ op = "Apply"
  /\ \E r \in BOOLEAN :
       /\ log' = log \o <<Ev("f", 0, <<cur>>, TRUE),
                          Ev("yield", 0, <<ApplyValue(fname, cur)>>, r)>>
       /\ ret' = ApplyContinue(r)
  /\ pc' = "run"
  /\ UNCHANGED <<xvars, op, srcs0, srcs, sst, fname, pname, k, cur, i, pull,
                 ax, aok, bx, bok>>

\* --------------------------------------------------------------- Filter
\* if pred(i) { if !yield(i) { return } }
FilterKeeps(name, x) == pred(name, x)

\* Variant: the body does not look at what yield returned.
FilterContinue_IgnoresStop(r) == TRUE

FilterContinue(r) == r

Filter_Call ==
  /\ pc = "idle" /\ op = "Filter"
  /\ CallSource(1)
  /\ UNCHANGED <<xvars, op, srcs0, srcs, sst, fname, pname, cur, ret, i, pull,
                 ax, aok, bx, bok>>

Filter_Body ==
  /\ pc = "body" /\ op = "Filter"
  /\ IF FilterKeeps(pname, cur)
       THEN \E r \in BOOLEAN :
              /\ log' = log \o <<Ev("pred", 0, <<cur>>, TRUE),
                                 Ev("yield", 0, <<cur>>, r)>>
              /\ ret' = FilterContinue(r)
       ELSE /\ log' = Append1(log, Ev("pred", 0, <<cur>>, FALSE))
            /\ ret' = TRUE
  /\ pc' = "run"
  /\ UNCHANGED <<xvars, op, srcs0, srcs, sst, fname, pname, k, cur, i, pull,
                 ax, aok, bx, bok>>

\* ------------------------------------------------------------ Enumerate
\* if !yield(i, y) { return }; i++
EnumerateContinue(r) == r

Enumerate_Call ==
  /\ pc = "idle" /\ op = "Enumerate"
  /\ i' = 0
  /\ CallSource(1)
  /\ UNCHANGED <<xvars, op, srcs0, srcs, sst, fname, pname, cur, ret, pull,
                 ax, aok, bx, bok>>

Enumerate_Body ==
  /\ pc = "body" /\ op = "Enumerate"
  /\ \E r \in BOOLEAN :
       /\ log' = Append1(log, Ev("yield", 0, <<i, cur>>, r))
       /\ ret' = EnumerateContinue(r)
       /\ i' = IF EnumerateContinue(r) THEN i + 1 ELSE i
  /\ pc' = "run"
  /\ UNCHANGED <<xvars, op, srcs0, srcs, sst, fname, pname, k, cur, pull,
                 ax, aok, bx, bok>>

\* The range over the only source ended: Apply, Filter, Enumerate and the
\* StepRange itself return.
Seq_Return ==
  /\ pc = "after" /\ op \in {"StepRange", "Apply", "Filter", "Enumerate"}
  /\ pc' = "done"
  /\ UNCHANGED <<xvars, op, srcs0, srcs, sst, fname, pname, k, cur, ret, i, pull,
                 ax, aok, bx, bok, log>>

\* ------------------------------------------------------------------ Zip
\* iter.Pull(seq) gives next and stop over a coroutine that runs seq.
\* pull[n] is "live" until seq returned or stop was called, then "done".

\* next(): resumes the coroutine (its yield returns true) up to the next
\* element; once done it reports (zero, false) without running anything.
PullNext(n) ==
  IF pull[n] = "done" THEN Returned(srcs[n])
  ELSE Resume(srcs[n], sst[n], TRUE)

\* Variant: stop leaves a suspended coroutine where it is.
PullStop_Leaves(n) == [s |-> srcs[n], p |-> sst[n], x |-> 0]

\* stop(): marks the adapter done; a coroutine suspended in yield is resumed
\* with yield returning false and runs to its return; one that was never
\* started is never run.
PullStop(n) ==
  IF pull[n] = "live" /\ sst[n] = "yield"
    THEN Resume(srcs[n], sst[n], FALSE)
    ELSE [s |-> srcs[n], p |-> sst[n], x |-> 0]

\* Variant: Zip goes on until both sides are exhausted.
ZipExhausted_Both(a, b) == ~a /\ ~b

\* (!aok || !bok): one of the two sides is exhausted.
ZipExhausted(a, b) == ~a \/ ~b

\* pa, stopa := iter.Pull(a); pb, stopb := iter.Pull(b)
Zip_Call ==
  /\ pc = "idle" /\ op = "Zip"
  /\ pull' = [n \in 1..2 |-> "live"]
  /\ pc' = "pullA"
  /\ UNCHANGED <<xvars, op, srcs0, srcs, sst, fname, pname, k, cur, ret, i,
                 ax, aok, bx, bok, log>>

\* The events of one call of next on side n with result res.
NextEvents(n, res) ==
  (IF pull[n] = "live" /\ sst[n] = "new"
     THEN <<Ev("begin", n, <<>>, TRUE)>> ELSE <<>>)
  \o (IF res.p = "yield" THEN <<Ev("src", n, <<res.x>>, TRUE)>> ELSE <<>>)
  \o <<Ev("next", n, <<res.x>>, res.p = "yield")>>

PullUpdate(n, res) ==
  /\ srcs' = [srcs EXCEPT ![n] = res.s]
  /\ sst' = [sst EXCEPT ![n] = IF pull[n] = "done" THEN sst[n] ELSE res.p]
  /\ pull' = [pull EXCEPT ![n] = IF res.p = "ret" THEN "done" ELSE pull[n]]

\* ax, aok := pa()
Zip_PullA ==
  /\ pc = "pullA"
  /\ NSrcEvents < MaxSteps
  /\ LET res == PullNext(1) IN
       /\ PullUpdate(1, res)
       /\ ax' = res.x
       /\ aok' = (res.p = "yield")
       /\ log' = log \o NextEvents(1, res)
  /\ pc' = "pullB"
  /\ UNCHANGED <<xvars, op, srcs0, fname, pname, k, cur, ret, i, bx, bok>>

\* bx, bok := pb()
Zip_PullB ==
  /\ pc = "pullB"
  /\ LET res == PullNext(2) IN
       /\ PullUpdate(2, res)
       /\ bx' = res.x
       /\ bok' = (res.p = "yield")
       /\ log' = log \o NextEvents(2, res)
  /\ pc' = "check"
  /\ UNCHANGED <<xvars, op, srcs0, fname, pname, k, cur, ret, i, ax, aok>>

\* if (!aok || !bok) || !yield(ax, bx) { stopa(); stopb(); return }
Zip_Check ==
  /\ pc = "check"
  /\ IF ZipExhausted(aok, bok)
       THEN pc' = "stopA" /\ log' = log
       ELSE \E r \in BOOLEAN :
              /\ log' = Append1(log, Ev("yield", 0, <<ax, bx>>, r))
              /\ pc' = IF r THEN "pullA" ELSE "stopA"
  /\ UNCHANGED <<xvars, op, srcs0, srcs, sst, fname, pname, k, cur, ret, i, pull,
                 ax, aok, bx, bok>>

StopUpdate(n, res) ==
  /\ srcs' = [srcs EXCEPT ![n] = res.s]
  /\ sst' = [sst EXCEPT ![n] = res.p]
  /\ pull' = [pull EXCEPT ![n] = "done"]
  /\ log' = Append1(log, Ev("stop", n, <<>>, TRUE))

\* stopa()
Zip_StopA ==
  /\ pc = "stopA"
  /\ StopUpdate(1, PullStop(1))
  /\ pc' = "stopB"
  /\ UNCHANGED <<xvars, op, srcs0, fname, pname, k, cur, ret, i, ax, aok, bx, bok>>

\* stopb(); return
Zip_StopB ==
  /\ pc = "stopB"
  /\ StopUpdate(2, PullStop(2))
  /\ pc' = "done"
  /\ UNCHANGED <<xvars, op, srcs0, fname, pname, k, cur, ret, i, ax, aok, bx, bok>>

\* --------------------------------------------------------- construction
\* StepRange, Chain, Apply, Filter, Zip and Enumerate only return a closure
\* (return func(yield ...) { ... }): nothing of it runs before it is ranged
\* over.
Construct ==
  /\ pc = "cons" /\ op \in SeqOps
  /\ pc' = "idle"
  /\ UNCHANGED <<xvars, op, srcs0, srcs, sst, fname, pname, k, cur, ret, i,
                 pull, ax, aok, bx, bok, log>>

\* -------------------------------------------------------------- Reverse
\* slices.Reverse(s)
SlicesReverse(l) == [n \in 1..Len(l) |-> l[Len(l) + 1 - n]]

\* Variant: the slice is handed on as collected.
ReverseSlice_Keeps(l) == l

\* What Reverse makes of the collected slice.
ReverseSlice(l) == SlicesReverse(l)

\* s := slices.Collect(i): Reverse ranges over its argument when it is
\* called.
Reverse_Call ==
  /\ pc = "cons" /\ op = "Reverse"
  /\ sl' = <<>>
  /\ CallSource(1)
  /\ UNCHANGED <<op, srcs0, srcs, sst, fname, pname, cur, ret, i, pull,
                 ax, aok, bx, bok, j, nrev, out, seed, gname, def, rval,
                 rerr, panicked, past>>

\* The body of slices.Collect: s = append(s, v).
Reverse_Collect ==
  /\ pc = "body" /\ op = "Reverse"
  /\ sl' = Append(sl, cur)
  /\ ret' = TRUE
  /\ pc' = "run"
  /\ UNCHANGED <<op, srcs0, srcs, sst, fname, pname, k, cur, i, pull,
                 ax, aok, bx, bok, log, j, nrev, out, seed, gname, def, rval,
                 rerr, panicked, past>>

\* slices.Reverse(s); return slices.Values(s)
Reverse_Return ==
  /\ pc = "after" /\ op = "Reverse"
  /\ sl' = ReverseSlice(sl)
  /\ pc' = IF nrev > 1 THEN "outer" ELSE "idle"
  /\ UNCHANGED <<op, srcs0, srcs, sst, fname, pname, k, cur, ret, i, pull,
                 ax, aok, bx, bok, log, j, nrev, out, seed, gname, def, rval,
                 rerr, panicked, past>>

\* Reverse(Reverse(i)): the outer call collects the slices.Values of the
\* inner one, element by element, and reverses its own slice.
RECURSIVE CollectValues(_)
CollectValues(l) ==
  IF l = <<>> THEN <<>> ELSE <<Head(l)>> \o CollectValues(Tail(l))

Reverse_Outer ==
  /\ pc = "outer" /\ op = "Reverse"
  /\ sl' = ReverseSlice(CollectValues(sl))
  /\ pc' = "idle"
  /\ UNCHANGED <<op, srcs0, srcs, sst, fname, pname, k, cur, ret, i, pull,
                 ax, aok, bx, bok, log, j, nrev, out, seed, gname, def, rval,
                 rerr, panicked, past>>

\* The consumer ranges over the slices.Values(s) that Reverse returned.
Values_Call ==
  /\ pc = "idle" /\ op = "Reverse"
  /\ j' = 0
  /\ pc' = "vals"
  /\ UNCHANGED <<op, srcs0, srcs, sst, fname, pname, k, cur, ret, i, pull,
                 ax, aok, bx, bok, log, sl, nrev, out, seed, gname, def, rval,
                 rerr, panicked, past>>

\* for _, v := range s { if !yield(v) { return } }
Values_Yield ==
  /\ pc = "vals" /\ op = "Reverse"
  /\ IF j < Len(sl)
       THEN \E r \in BOOLEAN :
              /\ log' = Append1(log, Ev("yield", 0, <<sl[j + 1]>>, r))
              /\ pc' = IF r THEN "vals" ELSE "done"
              /\ j' = IF r THEN j + 1 ELSE j
       ELSE pc' = "done" /\ UNCHANGED <<log, j>>
  /\ UNCHANGED <<op, srcs0, srcs, sst, fname, pname, k, cur, ret, i, pull,
                 ax, aok, bx, bok, sl, nrev, out, seed, gname, def, rval,
                 rerr, panicked, past>>

\* ------------------------------------------------------- Reduce and Sum
\* Variant: the accumulator is handed to f as second argument.
ReduceStep_Swapped(name, a, b) == g(name, b, a)

\* out = f(out, v)
ReduceStep(name, a, b) == g(name, a, b)

\* var zero T; return Reduce(in, zero, func(a, b T) T { return a + b })
Sum_Call ==
  /\ pc = "cons" /\ op = "Sum"
  /\ seed' = 0
  /\ gname' = "add"
  /\ pc' = "reduce"
  /\ UNCHANGED <<op, srcs0, srcs, sst, fname, pname, k, cur, ret, i, pull,
                 ax, aok, bx, bok, log, sl, j, nrev, out, def, rval, rerr,
                 panicked, past>>

\* out := seed; for v := range in
Reduce_Call ==
  /\ \/ pc = "cons" /\ op = "Reduce"
     \/ pc = "reduce" /\ op = "Sum"
  /\ out' = seed
  /\ CallSource(1)
  /\ UNCHANGED <<op, srcs0, srcs, sst, fname, pname, cur, ret, i, pull,
                 ax, aok, bx, bok, sl, j, nrev, seed, gname, def, rval, rerr,
                 panicked, past>>

Reduce_Body ==
  /\ pc = "body" /\ op \in FoldOps
  /\ out' = ReduceStep(gname, out, cur)
  /\ log' = Append1(log, Ev("f", 0, <<out, cur>>, TRUE))
  /\ ret' = TRUE
  /\ pc' = "run"
  /\ UNCHANGED <<op, srcs0, srcs, sst, fname, pname, k, cur, i, pull,
                 ax, aok, bx, bok, sl, j, nrev, seed, gname, def, rval, rerr,
                 panicked, past>>

\* return out
Reduce_Return ==
  /\ pc = "after" /\ op \in FoldOps
  /\ rval' = out
  /\ pc' = "done"
  /\ UNCHANGED <<op, srcs0, srcs, sst, fname, pname, k, cur, ret, i, pull,
                 ax, aok, bx, bok, log, sl, j, nrev, out, seed, gname, def,
                 rerr, panicked, past>>

\* ------------------------------------------- Iter and IterErr as sequences
\* Iter(x) returns x.Iter(), IterErr(r) a closure over r: nothing runs yet.
Iter_Construct ==
  /\ pc = "cons" /\ op \in {"Iter", "IterErr"}
  /\ srcs' = IF op = "IterErr" THEN <<IterErr(srcs[1])>> ELSE srcs
  /\ pc' = "idle"
  /\ UNCHANGED <<xvars, op, srcs0, sst, fname, pname, k, cur, ret, i, pull,
                 ax, aok, bx, bok, log>>

\* The consumer ranges over the container's sequence.
Iter_Call ==
  /\ pc = "idle" /\ op \in {"Iter", "IterErr"}
  /\ CallSource(1)
  /\ UNCHANGED <<xvars, op, srcs0, srcs, sst, fname, pname, cur, ret, i,
                 pull, ax, aok, bx, bok>>

\* yield(r.val), yield(o.val), yield(r.err): the consumer's callback.
Iter_Yield ==
  /\ pc = "body" /\ op \in {"Iter", "IterErr"}
  /\ \E r \in BOOLEAN :
       /\ log' = Append1(log, Ev("yield", 0, <<cur>>, r))
       /\ ret' = r
  /\ pc' = "run"
  /\ UNCHANGED <<xvars, op, srcs0, srcs, sst, fname, pname, k, cur, i, pull,
                 ax, aok, bx, bok>>

Iter_Return ==
  /\ pc = "after" /\ op \in {"Iter", "IterErr"}
  /\ pc' = "done"
  /\ UNCHANGED <<xvars, op, srcs0, srcs, sst, fname, pname, k, cur, ret, i,
                 pull, ax, aok, bx, bok, log>>

\* ------------------------------------------------- extraction functions
\* _, ok := x.unwrap(); return ok
HasValue_Call ==
  /\ pc = "cons" /\ op = "HasValue"
  /\ rval' = unwrap(srcs[1]).ok
  /\ pc' = "done"
  /\ UNCHANGED <<rerr, panicked, log>>
  /\ UNCHANGED <<op, srcs0, srcs, sst, fname, pname, k, cur, ret, i, pull,
                 ax, aok, bx, bok, sl, j, nrev, out, seed, gname, def, past>>

\* _, ok := x.unwrap(); return !ok
IsEmpty_Call ==
  /\ pc = "cons" /\ op = "IsEmpty"
  /\ rval' = ~unwrap(srcs[1]).ok
  /\ pc' = "done"
  /\ UNCHANGED <<rerr, panicked, log>>
  /\ UNCHANGED <<op, srcs0, srcs, sst, fname, pname, k, cur, ret, i, pull,
                 ax, aok, bx, bok, sl, j, nrev, out, seed, gname, def, past>>

\* return r.val, r.err
Unpack_Call ==
  /\ pc = "cons" /\ op = "Unpack"
  /\ rval' = srcs[1].val
  /\ rerr' = srcs[1].err
  /\ pc' = "done"
  /\ UNCHANGED <<panicked, log>>
  /\ UNCHANGED <<op, srcs0, srcs, sst, fname, pname, k, cur, ret, i, pull,
                 ax, aok, bx, bok, sl, j, nrev, out, seed, gname, def, past>>

\* Variant: Unwrap returns val whatever ok is.
UnwrapPanics_Never(ok) == FALSE

\* if !ok { panic("called Unwrap on an empty value") }
UnwrapPanics(ok) == ~ok

\* val, ok := x.unwrap(); if !ok { panic(..) }; return val
Unwrap_Call ==
  /\ pc = "cons" /\ op = "Unwrap"
  /\ LET u == unwrap(srcs[1]) IN
       IF UnwrapPanics(u.ok)
         THEN panicked' = TRUE /\ pc' = "panic" /\ rval' = rval
         ELSE panicked' = FALSE /\ pc' = "done" /\ rval' = u.val
  /\ UNCHANGED <<rerr, log>>
  /\ UNCHANGED <<op, srcs0, srcs, sst, fname, pname, k, cur, ret, i, pull,
                 ax, aok, bx, bok, sl, j, nrev, out, seed, gname, def, past>>

\* val, ok := x.unwrap(); if ok { return val }; return def
UnwrapOr_Call ==
  /\ pc = "cons" /\ op = "UnwrapOr"
  /\ LET u == unwrap(srcs[1]) IN
       rval' = IF u.ok THEN u.val ELSE def
  /\ pc' = "done"
  /\ UNCHANGED <<rerr, panicked, log>>
  /\ UNCHANGED <<op, srcs0, srcs, sst, fname, pname, k, cur, ret, i, pull,
                 ax, aok, bx, bok, sl, j, nrev, out, seed, gname, def, past>>

\* Variant: the thunk is evaluated before ok is looked at.
UnwrapOrFCallsDef_Eager(ok) == TRUE

\* def() is reached only past "if ok { return val }".
UnwrapOrFCallsDef(ok) == ~ok

\* val, ok := x.unwrap(); if ok { return val }; return def()
UnwrapOrF_Call ==
  /\ pc = "cons" /\ op = "UnwrapOrF"
  /\ LET u == unwrap(srcs[1]) IN
       /\ rval' = IF u.ok THEN u.val ELSE def
       /\ log' = IF UnwrapOrFCallsDef(u.ok)
                   THEN Append1(log, Ev("def", 0, <<def>>, TRUE))
                   ELSE log
  /\ pc' = "done"
  /\ UNCHANGED <<rerr, panicked>>
  /\ UNCHANGED <<op, srcs0, srcs, sst, fname, pname, k, cur, ret, i, pull,
                 ax, aok, bx, bok, sl, j, nrev, out, seed, gname, def, past>>

\* ------------------------------------------------------- a second range
\* The consumer ranges over the same StepRange value again: the closure is
\* called anew and finds start as the last iteration left it.  What the
\* last iteration delivered is kept in past, and log starts afresh.
Reiterate ==
  /\ pc = "done" /\ op = "StepRange"
  /\ Len(past) + 1 < MaxIters
  /\ past' = Append(past, [first |-> srcs0[1], out |-> Out1,
                           stopped |-> Stopped])
  /\ srcs0' = srcs
  /\ sst' = [n \in 1..Len(srcs) |-> "new"]
  /\ log' = <<>>
  /\ ret' = TRUE
  /\ pc' = "idle"
  /\ UNCHANGED <<op, srcs, fname, pname, k, cur, i, pull, ax, aok, bx, bok,
                 sl, j, nrev, out, seed, gname, def, rval, rerr, panicked>>

\* ----------------------------------------------------------------- Next
Next ==
  \/ Reiterate
  \/ Iter_Construct
  \/ Iter_Call
  \/ Iter_Yield
  \/ Iter_Return
  \/ HasValue_Call
  \/ IsEmpty_Call
  \/ Unpack_Call
  \/ Unwrap_Call
  \/ UnwrapOr_Call
  \/ UnwrapOrF_Call
  \/ Sum_Call
  \/ Reduce_Call
  \/ Reduce_Body
  \/ Reduce_Return
  \/ Construct
  \/ Reverse_Call
  \/ Reverse_Collect
  \/ Reverse_Return
  \/ Reverse_Outer
  \/ Values_Call
  \/ Values_Yield
  \/ SourceStep
  \/ StepRange_Call
  \/ StepRange_Yield
  \/ Chain_Call
  \/ Chain_Body
  \/ Chain_Next
  \/ Apply_Call
  \/ Apply_Body
  \/ Filter_Call
  \/ Filter_Body
  \/ Enumerate_Call
  \/ Enumerate_Body
  \/ Seq_Return
  \/ Zip_Call
  \/ Zip_PullA
  \/ Zip_PullB
  \/ Zip_Check
  \/ Zip_StopA
  \/ Zip_StopB

Spec == Init /\ [][Next]_vars

TypeOK ==
  /\ op \in Ops
  /\ pc \in {"cons", "idle", "run", "body", "after", "done",
             "pullA", "pullB", "check", "stopA", "stopB", "outer", "vals", "reduce", "panic"}
  /\ \A n \in 1..Len(srcs) : sst[n] \in {"new", "yield", "ret"}
  /\ ret \in BOOLEAN

\* ============================================================ properties
\* What a sequence is expected to hold, written without its loop.
RangeElems(s) == [n \in 1..Max(0, s.end - s.start) |-> s.start + n - 1]

Elems(s) ==
  CASE s.kind = "range" -> RangeElems(s)
    [] s.kind = "option" -> IF s.hasSome THEN <<s.val>> ELSE <<>>
    [] s.kind = "result" -> IF s.err = Nil THEN <<s.val>> ELSE <<>>

RECURSIVE Concat(_)
Concat(ss) == IF ss = <<>> THEN <<>> ELSE Head(ss) \o Concat(Tail(ss))

IsPrefix(a, b) == Len(a) <= Len(b) /\ \A n \in 1..Len(a) : a[n] = b[n]

Front(l) == SubSeq(l, 1, Len(l) - 1)
Last(l) == l[Len(l)]

\* Positions of the log.
Pos == 1..Len(log)
\* The position where the consumer answered stop, 0 if it never did.
StopPos ==
  IF Stopped
    THEN CHOOSE n \in Pos :
           /\ log[n].ev = "yield" /\ ~log[n].ret
           /\ \A m \in 1..(n - 1) : ~(log[m].ev = "yield" /\ ~log[m].ret)
    ELSE 0

Finished == pc = "done"
Exhausted == Finished /\ ~Stopped

LenA == Len(RangeElems(srcs0[1]))
LenB == Len(RangeElems(srcs0[2]))

\* The calls of next that reported exhaustion.
FalseNexts == {n \in Pos : log[n].ev = "next" /\ ~log[n].ret}

\* C1: Zip(a, b) delivers min(len(a), len(b)) pairs, the k-th pair being
\* (k-th element of a, k-th element of b), and once a side has reported
\* exhaustion no further pair is delivered and no further tick is started.
C1_ZipPairs ==
  op = "Zip" =>
    /\ Len(Out) <= Min(LenA, LenB)
    /\ \A n \in 1..Len(Out) :
         Out[n] = <<RangeElems(srcs0[1])[n], RangeElems(srcs0[2])[n]>>
    /\ Exhausted => Len(Out) = Min(LenA, LenB)
    /\ \A n \in FalseNexts :
         /\ \A m \in Pos : m > n => log[m].ev # "yield"
         /\ \A m \in Pos : (m > n /\ log[m].ev = "next") => log[m].who = 2

C1_Witness ==
  /\ op = "Zip" /\ Exhausted
  /\ LenA # LenB
  /\ Len(Out) = 3

\* C2 (as claimed): Zip never makes a source produce an element beyond the
\* length of the shorter input, and every element a source produced has
\* been delivered in a pair when Zip returns.
C2_ZipNoOverPull ==
  op = "Zip" =>
    \A n \in 1..2 :
      /\ Len(Produced(n)) <= Min(LenA, LenB)
      /\ Finished => Len(Produced(n)) = Len(Out)

\* C3: when Zip returns, stop of both pull adapters has been called, both
\* adapters are done and no source is suspended inside its yield.
StopCalled(n) == \E m \in Pos : log[m].ev = "stop" /\ log[m].who = n

C3_ZipStopsBoth ==
  (op = "Zip" /\ Finished) =>
    \A n \in 1..2 :
      /\ StopCalled(n)
      /\ pull[n] = "done"
      /\ sst[n] # "yield"

C3_Witness ==
  /\ op = "Zip" /\ Finished /\ Stopped
  /\ Len(Out) = 2
  /\ \A n \in 1..2 : sst[n] = "ret" /\ srcs[n].start < srcs[n].end

\* C4: after the consumer's callback answered stop, the callback is not
\* called again, no source is started and no source produces an element
\* (nor is f or pred called): only the pull adapters' stops follow.
C4_StopIsFinal ==
  Stopped => \A m \in Pos : m > StopPos => log[m].ev = "stop"

C4_Witness ==
  /\ op = "Enumerate" /\ Finished /\ Stopped
  /\ Len(Out) = 2
  /\ srcs[1].start < srcs[1].end

\* C5 (as claimed): StepRange with start < end and a step that is zero or
\* negative delivers no element.
C5_StepRangeBadStepEmpty ==
  (op = "StepRange" /\ srcs0[1].start < srcs0[1].end /\ srcs0[1].step <= 0)
    => Out = <<>>

\* C6: a fresh Range(a, b) delivers a prefix of a, a+1, .., b-1 and, when
\* consumed to the end, all of it: max(0, b-a) elements, none when a >= b.
IsRange == op = "StepRange" /\ srcs0[1].step = 1

C6_RangeElems ==
  IsRange =>
    /\ IsPrefix(Out1, RangeElems(srcs0[1]))
    /\ Exhausted =>
         /\ Out1 = RangeElems(srcs0[1])
         /\ Len(Out) = Max(0, srcs0[1].end - srcs0[1].start)
         /\ srcs0[1].start >= srcs0[1].end => Out = <<>>

C6_Witness ==
  /\ IsRange /\ Exhausted
  /\ srcs0[1].start = 1 /\ srcs0[1].end = 3
  /\ Out1 = <<1, 2>>

\* C7: Chain(s1, .., sn) consumed to the end delivers the concatenation of
\* the elements of s1, .., sn; nothing for n = 0, and an Err or a None
\* contributes nothing.
ExpectedChain == Concat([n \in 1..Len(srcs0) |-> Elems(srcs0[n])])

C7_ChainConcat ==
  op = "Chain" =>
    /\ IsPrefix(Out1, ExpectedChain)
    /\ Exhausted => Out1 = ExpectedChain
    /\ (Exhausted /\ Len(srcs0) = 0) => Out = <<>>

C7_Witness ==
  /\ op = "Chain" /\ Exhausted
  /\ Len(srcs0) = 2
  /\ srcs0[1] = Err("e1") /\ srcs0[2] = Range(0, 2)
  /\ Out1 = <<0, 1>>

\* C8: once the consumer answered stop on an element of s_i, Chain delivers
\* nothing more, s_i produces nothing more and none of s_(i+1), .., s_n is
\* ever called.
LastProducer ==
  LET ps == {n \in Pos : log[n].ev = "src"} IN
    log[CHOOSE n \in ps : \A m \in ps : m <= n].who

C8_ChainEarlyStop ==
  (op = "Chain" /\ Stopped) =>
    /\ ~OutRets[Len(Out)]
    /\ \A n \in 1..(Len(Out) - 1) : OutRets[n]
    /\ Len(Concat([n \in 1..Len(srcs) |-> Produced(n)])) = Len(Out)
    /\ \A n \in 1..Len(srcs) : n > LastProducer => (n \notin Begun /\ sst[n] = "new")

C8_Witness ==
  /\ op = "Chain" /\ Finished /\ Stopped
  /\ srcs0 = <<Range(0, 2), Range(0, 2)>>
  /\ Out1 = <<0>>
  /\ Begun = {1}

\* C9: Filter delivers the source elements that satisfy pred, in source
\* order; pred is called once on every element the source produced, and on
\* no element after the consumer answered stop.
FilterSeq(l) == SelectSeq(l, LAMBDA x : pred(pname, x))

C9_Filter ==
  op = "Filter" =>
    /\ IsPrefix(Produced(1), RangeElems(srcs0[1]))
    /\ PredCalls = IF pc = "body" THEN Front(Produced(1)) ELSE Produced(1)
    /\ Out1 = FilterSeq(PredCalls)
    /\ Exhausted => Out1 = FilterSeq(RangeElems(srcs0[1]))
    /\ Stopped => Last(PredCalls) = Last(Out1)

C9_Witness ==
  /\ op = "Filter" /\ pname = "isEven" /\ Finished /\ Stopped
  /\ srcs0[1] = Range(0, 6)
  /\ Out1 = <<0, 2, 4>>
  /\ PredCalls = <<0, 1, 2, 3, 4>>

\* C10: Apply delivers f(e) for the source elements e in source order, and
\* f has been called exactly once per delivered element: n times when the
\* consumer stops at the n-th element.
C10_Apply ==
  op = "Apply" =>
    /\ IsPrefix(FCalls, RangeElems(srcs0[1]))
    /\ Len(FCalls) = Len(Out)
    /\ \A n \in 1..Len(Out) : Out[n] = <<f(fname, FCalls[n])>>
    /\ Exhausted => FCalls = RangeElems(srcs0[1])
    /\ \A n \in 1..Len(Out) : ~OutRets[n] => Len(FCalls) = n

C10_Witness ==
  /\ op = "Apply" /\ fname = "double" /\ Finished /\ Stopped
  /\ srcs0[1] = Range(1, 6)
  /\ Out1 = <<2, 4, 6>>
  /\ FCalls = <<1, 2, 3>>

\* C11 (as claimed): constructing Chain, Apply, Filter, Zip, Enumerate or
\* Reverse consumes nothing: until a consumer ranges over the returned
\* sequence no source has produced an element and no source's cursor moved.
Combinators == {"Chain", "Apply", "Filter", "Zip", "Enumerate", "Reverse"}

C11_ConstructionIsLazy ==
  (op \in Combinators /\ pc \in {"cons", "outer", "idle"}) =>
    /\ NSrcEvents = 0
    /\ srcs = srcs0

\* C12: Reduce(seq, seed, f) returns f(..f(f(seed, e1), e2).., en) for the
\* elements e1..en of seq, f being called once per element in source order
\* with the accumulator first; the seed for an empty seq; and Sum(seq) is
\* that fold with seed 0 and +, the sum of the elements.
GCalls == Vals(SelectEv(log, "f"))

RECURSIVE FoldL(_, _, _)
FoldL(name, a, l) ==
  IF l = <<>> THEN a ELSE g(name, FoldL(name, a, Front(l)), Last(l))

RECURSIVE SumOf(_)
SumOf(l) == IF l = <<>> THEN 0 ELSE Head(l) + SumOf(Tail(l))

C12_Reduce ==
  op \in FoldOps =>
    LET es == RangeElems(srcs0[1]) IN
      /\ Len(GCalls) <= Len(es)
      /\ \A n \in 1..Len(GCalls) :
           GCalls[n] = <<FoldL(gname, seed, SubSeq(es, 1, n - 1)), es[n]>>
      /\ Finished =>
           /\ Len(GCalls) = Len(es)
           /\ rval = FoldL(gname, seed, es)
           /\ es = <<>> => rval = seed
           /\ op = "Sum" => rval = Wrap(SumOf(es))

C12_Witness ==
  /\ op = "Reduce" /\ Finished
  /\ gname = "sub" /\ seed = 2
  /\ srcs0[1] = Range(1, 4)
  /\ rval = 0 - 4
  /\ GCalls = <<<<2, 1>>, <<1, 2>>, <<0 - 1, 3>>>>

\* The container handed to the function, and whether it holds a value.
Box == srcs0[1]
IsResult == op \in BoxOps /\ Box.kind = "result"
HoldsValue ==
  \/ Box.kind = "option" /\ Box.hasSome
  \/ Box.kind = "result" /\ Box.err = Nil
Returns == pc = "done"
Panics == pc = "panic"

\* C13: for r = Try(v, e) with e non-nil, HasValue(r) is false, Iter(r)
\* yields nothing and IterErr(r) yields exactly e, whatever v is; with e nil,
\* HasValue(r) is true, Iter(r) yields exactly v and IterErr(r) nothing.
C13_Try ==
  IsResult =>
    LET vs == IF Box.err = Nil THEN <<Box.val>> ELSE <<>>
        errs == IF Box.err = Nil THEN <<>> ELSE <<Box.err>> IN
      /\ (op = "HasValue" /\ Returns) => rval = (Box.err = Nil)
      /\ op = "Iter" => (IsPrefix(Out1, vs) /\ (Exhausted => Out1 = vs))
      /\ op = "IterErr" => (IsPrefix(Out1, errs) /\ (Exhausted => Out1 = errs))

C13_Witness ==
  /\ op = "IterErr" /\ Exhausted
  /\ Box = Try(5, "e1")
  /\ Out1 = <<"e1">>

\* C14 (as claimed): Unpack never returns a non-nil error together with a
\* non-zero value; Unpack(Try(v, e)) with e non-nil returns the zero value
\* and e.
C14_ResultNeverBoth ==
  (op = "Unpack" /\ Returns) =>
    /\ rerr = Box.err
    /\ rerr # Nil => rval = 0

\* C15: Unwrap(x) returns the held value of a Some or of a Result without
\* error, and panics, returning nothing, for a None and for a Result that
\* holds an error.
C15_Unwrap ==
  (op = "Unwrap" /\ pc # "cons") =>
    /\ HoldsValue => (Returns /\ ~panicked /\ rval = Box.val)
    /\ ~HoldsValue => (Panics /\ panicked)

C15_Witness ==
  /\ op = "Unwrap" /\ Panics /\ panicked
  /\ Box = Err("e1")

\* C16: UnwrapOrF(x, thunk) returns the held value without calling thunk
\* when x holds one, and otherwise calls thunk once and returns its result;
\* UnwrapOr(x, d) returns the held value or else d; neither panics.
ThunkCalls == Vals(SelectEv(log, "def"))

C16_UnwrapOr ==
  /\ op \in {"UnwrapOr", "UnwrapOrF"} => (~Panics /\ ~panicked)
  /\ (op \in {"UnwrapOr", "UnwrapOrF"} /\ Returns) =>
       rval = IF HoldsValue THEN Box.val ELSE def
  /\ (op = "UnwrapOrF" /\ Returns) =>
       ThunkCalls = IF HoldsValue THEN <<>> ELSE <<<<def>>>>
  /\ (op = "UnwrapOrF" /\ ~Returns) => ThunkCalls = <<>>

C16_Witness ==
  /\ op = "UnwrapOrF" /\ Returns
  /\ Box = None /\ def = 4
  /\ rval = 4
  /\ Len(ThunkCalls) = 1

\* C17: the sequence Reverse(s) delivers the elements of s in reverse order
\* (as many, the k-th being the k-th from the end of s), and
\* Reverse(Reverse(s)) delivers them in their original order.
C17_Reverse ==
  (op = "Reverse" /\ pc \in {"idle", "vals", "done"}) =>
    LET es == RangeElems(srcs0[1])
        n == Len(es) IN
      /\ Len(sl) = n
      /\ Len(Out1) <= n
      /\ Exhausted => Len(Out1) = n
      /\ nrev = 1 => \A m \in 1..Len(Out1) : Out1[m] = es[n + 1 - m]
      /\ nrev = 2 => \A m \in 1..Len(Out1) : Out1[m] = es[m]

C17_Witness ==
  /\ op = "Reverse" /\ Exhausted
  /\ nrev = 1
  /\ srcs0[1] = Range(1, 4)
  /\ Out1 = <<3, 2, 1>>

\* C18 (as claimed): with step > 0 every element a fresh StepRange(start,
\* end, step) delivers lies in [start, end) and the elements are strictly
\* increasing, also when start + k*step passes the largest value of the type.
C18_StepRangeInBounds ==
  (op = "StepRange" /\ past = <<>> /\ srcs0[1].step > 0) =>
    \A n \in 1..Len(Out1) :
      /\ srcs0[1].start <= Out1[n]
      /\ Out1[n] < srcs0[1].end
      /\ n > 1 => Out1[n - 1] < Out1[n]

\* C19: the iterations of one StepRange value share its cursor: after an
\* iteration that ran to exhaustion every later one delivers nothing, and
\* after an iteration that the consumer stopped at element v the next one
\* starts at v, which is delivered again.
C19_SharedCursor ==
  (op = "StepRange" /\ past # <<>>) =>
    LET prev == past[Len(past)] IN
      /\ (\E m \in 1..Len(past) : ~past[m].stopped) => Out1 = <<>>
      /\ prev.stopped =>
           /\ srcs0[1].start = Last(prev.out)
           /\ Out1 # <<>> => Out1[1] = Last(prev.out)
           /\ Finished => Out1 # <<>>

C19_Witness ==
  /\ op = "StepRange" /\ Len(past) = 1 /\ Exhausted
  /\ past[1].first = StepRange(0, 3, 1)
  /\ past[1].stopped /\ past[1].out = <<0, 1>>
  /\ Out1 = <<1, 2>>

====
